---- MODULE Spec2Model ----
(***************************************************************************)
(* A model of ascii-canvas-ai: the connection inference of the AWS scanner *)
(* (agents/aws_scanner.py) and the interactive and batch workflows of      *)
(* main.py with the two rendering providers (agents/ascii_artist.py) and   *)
(* the design client (agents/design_recommender.py).                       *)
(***************************************************************************)
EXTENDS Integers, Sequences, FiniteSets, TLC

\* Longest component list given to infer_connections (besides ExampleLists).
MaxComponents == 3

\* Most discovery commands that fail in one scan.
MaxFailedCalls == 1

\* Most calls of scan_aws_infrastructure on one AwsScannerAgent.
MaxScans == 2

\* Longest list of components, of connections and of notes in a payload
\* given to the Schema Model.
MaxItems == 2

(***************************************************************************)
(* Strings whose characters matter (names, descriptions typed by the user) *)
(* are sequences of one-character strings, so that Python's `in` and       *)
(* str.strip() are computed, not assumed.                                  *)
(***************************************************************************)
LambdaStr == <<"L", "a", "m", "b", "d", "a">>

\* Python's `sub in s` on strings.
Contains(s, sub) ==
    \E i \in 0..(Len(s) - Len(sub)) : SubSeq(s, i + 1, i + Len(sub)) = sub

NameApp == <<"a", "p", "p">>
NameLower == <<"l", "a", "m", "b", "d", "a">>
NameMyLambda == <<"m", "y", "L", "a", "m", "b", "d", "a">>
NameLb1 == <<"l", "b", "1">>
NameSvc1 == <<"s", "v", "c", "1">>
NameSvc2 == <<"s", "v", "c", "2">>
NameDb1 == <<"d", "b", "1">>
NameS3a == <<"s", "3", "a">>
NameS3b == <<"s", "3", "b">>

\* Names of the enumerated component lists.
Names == {NameApp, NameLower, NameMyLambda}

\* The conventional values of SystemComponent.type, and "compute", which
\* infer_connections also tests for.
Types == {"service", "compute", "function", "database", "cache", "queue",
          "api", "load_balancer", "storage", "cdn"}

SystemComponent(n, t) == [name |-> n, type |-> t, description |-> "component"]

Connection(f, t, ct, d) ==
    [from_component |-> f, to_component |-> t, connection_type |-> ct,
     description |-> d]

ComponentSet == {SystemComponent(n, t) : n \in Names, t \in Types}

\* spec 8: [LB(lb1), Service(svc1), Database(db1)].
ExampleLbSvcDb ==
    <<SystemComponent(NameLb1, "load_balancer"),
      SystemComponent(NameSvc1, "service"),
      SystemComponent(NameDb1, "database")>>

\* spec 8: two service components and two storage components.
ExampleTwoSvcTwoStorage ==
    <<SystemComponent(NameSvc1, "service"),
      SystemComponent(NameSvc2, "service"),
      SystemComponent(NameS3a, "storage"),
      SystemComponent(NameS3b, "storage")>>

\* A function ahead of the first service, between two storages.
ExampleFunctionFirst ==
    <<SystemComponent(NameS3a, "storage"),
      SystemComponent(NameSvc1, "function"),
      SystemComponent(NameS3b, "storage"),
      SystemComponent(NameSvc2, "service")>>

\* One load balancer, two sources and two targets of pattern 2.
ExampleTwoByTwo ==
    <<SystemComponent(NameLb1, "load_balancer"),
      SystemComponent(NameSvc1, "service"),
      SystemComponent(NameDb1, "database"),
      SystemComponent(NameSvc2, "compute"),
      SystemComponent(NameS3a, "database")>>

\* Two APIs of one name, a storage whose name contains "Lambda", and a
\* function whose name is "lambda" in lower case.
ExampleLambdaNames ==
    <<SystemComponent(NameApp, "api"),
      SystemComponent(NameApp, "api"),
      SystemComponent(NameMyLambda, "storage"),
      SystemComponent(NameLower, "function")>>

ExampleLists ==
    {ExampleLbSvcDb, ExampleTwoSvcTwoStorage, ExampleFunctionFirst,
     ExampleTwoByTwo, ExampleLambdaNames}

InputLists ==
    UNION {[1..n -> ComponentSet] : n \in 0..MaxComponents} \cup ExampleLists

(***************************************************************************)
(* infer_connections (aws_scanner.py 350-438).                             *)
(***************************************************************************)
DescRule1 == "Load balancer distributes traffic to service"
DescRule2 == "Service reads/writes data to database"
DescRule3 == "Service uses cache for performance"
DescRule4 == "Service publishes messages to queue"
DescRule5 == "API Gateway routes requests to Lambda function"
DescRule6 == "Service stores/retrieves files from storage"

\* [c for c in components if c.type == t]
OfType(components, t) == SelectSeq(components, LAMBDA c : c.type = t)

lb_components(components) == OfType(components, "load_balancer")

ec2_components(components) ==
    SelectSeq(components, LAMBDA c : c.type \in {"service", "compute"})

\* service_components without the function type.
service_components_NoFunction(components) ==
    SelectSeq(components, LAMBDA c : c.type \in {"service", "compute"})

service_components(components) ==
    SelectSeq(components,
              LAMBDA c : c.type \in {"service", "compute", "function"})

db_components(components) == OfType(components, "database")
cache_components(components) == OfType(components, "cache")
queue_components(components) == OfType(components, "queue")
api_components(components) == OfType(components, "api")

\* lambda_components by type alone, without the name test.
lambda_components_TypeOnly(components) == OfType(components, "function")

lambda_components(components) ==
    SelectSeq(components,
              LAMBDA c : Contains(c.name, LambdaStr) \/ c.type = "function")

storage_components(components) == OfType(components, "storage")

\* The slice s[-1:] in place of s[:1].
FirstOnly_Last(s) == IF Len(s) = 0 THEN <<>> ELSE <<s[Len(s)]>>

\* No slice at all.
FirstOnly_All(s) == s

\* The slice s[:1].
FirstOnly(s) == IF Len(s) = 0 THEN <<>> ELSE <<s[1]>>

\* The two loops nested the other way round.
NestedLoop_TargetMajor(srcs, tgts, ct, d) ==
    [k \in 1..(Len(srcs) * Len(tgts)) |->
        Connection(srcs[((k - 1) % Len(srcs)) + 1].name,
                   tgts[((k - 1) \div Len(srcs)) + 1].name, ct, d)]

\* for a in srcs: for b in tgts: connections.append(Connection(a, b, ct, d))
NestedLoop(srcs, tgts, ct, d) ==
    [k \in 1..(Len(srcs) * Len(tgts)) |->
        Connection(srcs[((k - 1) \div Len(tgts)) + 1].name,
                   tgts[((k - 1) % Len(tgts)) + 1].name, ct, d)]

Pattern1(components) ==
    NestedLoop(lb_components(components), ec2_components(components),
               "http", DescRule1)

Pattern2(components) ==
    NestedLoop(service_components(components), db_components(components),
               "sync", DescRule2)

\* Pattern 3 with pattern 2's targets.
Pattern3_Database(components) ==
    NestedLoop(service_components(components), db_components(components),
               "sync", DescRule3)

Pattern3(components) ==
    NestedLoop(service_components(components), cache_components(components),
               "sync", DescRule3)

\* Pattern 4 with pattern 3's connection type.
Pattern4_Sync(components) ==
    NestedLoop(service_components(components), queue_components(components),
               "sync", DescRule4)

Pattern4(components) ==
    NestedLoop(service_components(components), queue_components(components),
               "async", DescRule4)

Pattern5(components) ==
    NestedLoop(api_components(components), lambda_components(components),
               "http", DescRule5)

Pattern6(components) ==
    NestedLoop(FirstOnly(service_components(components)),
               FirstOnly(storage_components(components)),
               "sync", DescRule6)

infer_connections(components) ==
    Pattern1(components) \o Pattern2(components) \o Pattern3(components)
        \o Pattern4(components) \o Pattern5(components)
        \o Pattern6(components)

(***************************************************************************)
(* Values of the workflows of main.py.  A string typed by the user or read *)
(* from a file is a sequence of atoms: blank characters and non-blank runs.*)
(***************************************************************************)
Whitespace == {" ", "\n", "\t"}

\* str.strip()
Strip(s) ==
    LET solid == {i \in DOMAIN s : s[i] \notin Whitespace}
    IN  IF solid = {}
        THEN <<>>
        ELSE SubSeq(s, CHOOSE i \in solid : \A j \in solid : i <= j,
                       CHOOSE i \in solid : \A j \in solid : j <= i)

\* What the user types as a description, or what the batch input file holds.
DescriptionInputs ==
    { <<>>, <<" ", "\n">>, <<"shop">>, <<" ", "shop", "\n">> }

\* An optional value: None, or Some(x) holding x.
None == <<>>
Some(x) == <<x>>
ValueOf(o) == o[1]

\* Designs the design provider may answer with.
DesignShop ==
    [title |-> <<"Shop">>, description |-> "A web shop",
     components |-> <<SystemComponent(NameApp, "service"),
                      SystemComponent(NameDb1, "database")>>,
     connections |-> <<Connection(NameApp, NameDb1, "sync", "reads orders")>>,
     notes |-> << <<"one region">> >>]

DesignShopCached ==
    [title |-> <<"Shop">>, description |-> "A web shop with a cache",
     components |-> <<SystemComponent(NameApp, "service"),
                      SystemComponent(NameLower, "cache")>>,
     connections |-> <<Connection(NameApp, NameLower, "sync", "reads cache")>>,
     notes |-> <<>>]

DesignSet == {DesignShop, DesignShopCached}

(***************************************************************************)
(* The Schema Model (design_recommender.py 9-30) and JSON.  A JSON value   *)
(* is tagged with its kind; an object is a record of its members.          *)
(***************************************************************************)
JStr(x) == [t |-> "string", v |-> x]
JArr(a) == [t |-> "array", v |-> a]
JObj(o) == [t |-> "object", v |-> o]
JNull == [t |-> "null", v |-> <<>>]

ComponentFields == {"name", "type", "description"}

ConnectionFields ==
    {"from_component", "to_component", "connection_type", "description"}

DesignFields ==
    {"title", "description", "components", "connections", "notes"}

\* pydantic's validation of a `str` field and of a `list[...]` field.
IsStr(j) == j.t = "string"
IsListOf(j, Valid(_)) == j.t = "array" /\ \A i \in DOMAIN j.v : Valid(j.v[i])

\* Whether j is an object that has every one of `fields`, each a string;
\* members beyond them are ignored (pydantic's default for extra keys).
HasStrFields(j, fields) ==
    /\ j.t = "object"
    /\ fields \subseteq DOMAIN j.v
    /\ \A f \in fields : IsStr(j.v[f])

ValidComponent(j) == HasStrFields(j, ComponentFields)
ValidConnection(j) == HasStrFields(j, ConnectionFields)

\* A validation that leaves a missing notes member out of its checks.
ValidDesign_NotesOptional(j) ==
    /\ j.t = "object"
    /\ (DesignFields \ {"notes"}) \subseteq DOMAIN j.v
    /\ IsStr(j.v.title)
    /\ IsStr(j.v.description)
    /\ IsListOf(j.v.components, ValidComponent)
    /\ IsListOf(j.v.connections, ValidConnection)
    /\ "notes" \in DOMAIN j.v => IsListOf(j.v.notes, IsStr)

\* Whether SystemDesign(**j) validates: no field has a default.
ValidDesign(j) ==
    /\ j.t = "object"
    /\ DesignFields \subseteq DOMAIN j.v
    /\ IsStr(j.v.title)
    /\ IsStr(j.v.description)
    /\ IsListOf(j.v.components, ValidComponent)
    /\ IsListOf(j.v.connections, ValidConnection)
    /\ IsListOf(j.v.notes, IsStr)

\* SystemComponent(**j) and Connection(**j) of valid members.
ParseComponent(j) ==
    [name |-> j.v.name.v, type |-> j.v.type.v,
     description |-> j.v.description.v]

ParseConnection(j) ==
    Connection(j.v.from_component.v, j.v.to_component.v,
               j.v.connection_type.v, j.v.description.v)

\* SystemDesign(**j) of a valid object.  (A notes member that is not there
\* gives no notes: only a validation that lets such an object pass gets that
\* far.)
SystemDesign(j) ==
    [title |-> j.v.title.v,
     description |-> j.v.description.v,
     components |-> [i \in DOMAIN j.v.components.v |->
                        ParseComponent(j.v.components.v[i])],
     connections |-> [i \in DOMAIN j.v.connections.v |->
                         ParseConnection(j.v.connections.v[i])],
     notes |-> IF "notes" \in DOMAIN j.v
               THEN [i \in DOMAIN j.v.notes.v |-> j.v.notes.v[i].v]
               ELSE <<>>]

ComponentJson(c) ==
    JObj([name |-> JStr(c.name), type |-> JStr(c.type),
          description |-> JStr(c.description)])

ConnectionJson(c) ==
    JObj([from_component |-> JStr(c.from_component),
          to_component |-> JStr(c.to_component),
          connection_type |-> JStr(c.connection_type),
          description |-> JStr(c.description)])

\* A serialization that writes the notes in reverse.
model_dump_json_NotesReversed(d) ==
    JObj([title |-> JStr(d.title),
          description |-> JStr(d.description),
          components |-> JArr([i \in DOMAIN d.components |->
                                  ComponentJson(d.components[i])]),
          connections |-> JArr([i \in DOMAIN d.connections |->
                                   ConnectionJson(d.connections[i])]),
          notes |-> JArr([i \in DOMAIN d.notes |->
                             JStr(d.notes[Len(d.notes) + 1 - i])])])

\* SystemDesign.model_dump_json(): every field, lists in their order.
model_dump_json(d) ==
    JObj([title |-> JStr(d.title),
          description |-> JStr(d.description),
          components |-> JArr([i \in DOMAIN d.components |->
                                  ComponentJson(d.components[i])]),
          connections |-> JArr([i \in DOMAIN d.connections |->
                                   ConnectionJson(d.connections[i])]),
          notes |-> JArr([i \in DOMAIN d.notes |-> JStr(d.notes[i])])])

\* What the design provider answers: `status` tells whether the request
\* succeeded, `json` whether json.loads accepts the content, `value` what it
\* then returns.
Answered(j) == [status |-> "ok", json |-> TRUE, value |-> j]

\* model_dump_json(d) with member `field` taken out.
Without(d, field) ==
    LET o == model_dump_json(d).v
    IN  JObj([f \in DOMAIN o \ {field} |-> o[f]])

\* DesignShop's JSON with the connection_type of its connection missing.
ShopConnectionUntyped ==
    LET o == model_dump_json(DesignShop).v
        c == o.connections.v[1].v
    IN  JObj([o EXCEPT !.connections =
                JArr(<<JObj([f \in DOMAIN c \ {"connection_type"} |->
                               c[f]])>>)])

\* The answers enumerated: a failed request, text that is not JSON, the two
\* designs, a design with a member the schema does not know, and objects
\* that violate the schema (no notes, components not a list, a connection
\* without connection_type, no member at all).
DesignResponses ==
    << [status |-> "error", json |-> FALSE, value |-> JNull],
       [status |-> "ok", json |-> FALSE, value |-> JNull],
       Answered(model_dump_json(DesignShop)),
       Answered(model_dump_json(DesignShopCached)),
       Answered(JObj([f \in DesignFields \cup {"version"} |->
                        IF f = "version" THEN JStr("2")
                        ELSE model_dump_json(DesignShopCached).v[f]])),
       Answered(Without(DesignShop, "notes")),
       Answered(JObj([model_dump_json(DesignShop).v EXCEPT
                         !.components = JStr("none")])),
       Answered(ShopConnectionUntyped),
       Answered(JObj(<<>>)) >>

\* recommend_design 100-112 and refine_design 135-147: the request, then
\* json.loads, then SystemDesign(**design_data); each can raise.
ParseResponse(r) ==
    IF r.status # "ok"
    THEN [kind |-> "api_error", design |-> None]
    ELSE IF ~r.json
    THEN [kind |-> "malformed_json", design |-> None]
    ELSE IF ~ValidDesign(r.value)
    THEN [kind |-> "schema_violation", design |-> None]
    ELSE [kind |-> "design", design |-> Some(SystemDesign(r.value))]

\* Texts a rendering provider may answer with.
DiagramTexts == {"+--+ art one", "+--+ art two"}

Styles == {"detailed", "compact", "flowchart"}

\* style_instructions.get(style, style_instructions['detailed']) of
\* create_ascii_diagram and of create_with_openai_fallback.
PrimaryStyleInstruction(s) ==
    CASE s = "compact" ->
            "Create a compact diagram that fits in ~80 characters width. Be space-efficient."
      [] s = "flowchart" ->
            "Create a flowchart-style diagram showing the flow of data/requests through the system."
      [] OTHER ->
            "Create a detailed, spacious diagram with boxes and clear connections. Use box-drawing characters."

\* A fallback that gives the detailed instruction whatever the style.
FallbackStyleInstruction_Detailed(s) ==
    "Create a detailed, spacious diagram with boxes and clear connections."

FallbackStyleInstruction(s) ==
    CASE s = "compact" ->
            "Create a compact diagram that fits in ~80 characters width."
      [] s = "flowchart" ->
            "Create a flowchart-style diagram showing data/request flow."
      [] OTHER ->
            "Create a detailed, spacious diagram with boxes and clear connections."

(***************************************************************************)
(* The AWS scanner's data (aws_scanner.py).                                *)
(***************************************************************************)
\* The resource kinds in the order scan_aws_infrastructure discovers them.
Kinds == <<"ec2_instances", "rds_instances", "lambda_functions",
           "s3_buckets", "load_balancers", "sqs_queues",
           "elasticache_clusters", "api_gateways", "ecs_services">>

KindSet == {Kinds[i] : i \in DOMAIN Kinds}

AllKeys == KindSet \cup {"security_groups"}

\* self.discovered_resources as __init__ sets it.
EmptyResources == [k \in AllKeys |-> <<>>]

Resource(n) == [name |-> n]

\* What an account holds, per kind, as the CLI would list it.  An EC2
\* instance carries its state; an ECS entry is a cluster with its services.
AccountEmpty == [k \in AllKeys |-> <<>>]

AccountWeb ==
    [AccountEmpty EXCEPT
        !["ec2_instances"] = <<[name |-> NameApp, state |-> "running"],
                               [name |-> NameSvc2, state |-> "stopped"]>>,
        !["rds_instances"] = <<[name |-> NameDb1]>>,
        !["load_balancers"] = <<[name |-> NameLb1]>>]

AccountServerless ==
    [AccountEmpty EXCEPT
        !["lambda_functions"] = <<[name |-> NameLower]>>,
        !["api_gateways"] = <<[name |-> NameMyLambda]>>,
        !["s3_buckets"] = <<[name |-> NameS3a], [name |-> NameS3b]>>,
        !["ecs_services"] = <<[cluster |-> "c1", services |-> <<NameSvc1>>]>>]

AccountSet == {AccountEmpty, AccountWeb, AccountServerless}

\* How one subprocess.run of the CLI can end.
CommandOutcomes == {"ok", "nonzero", "empty", "timeout", "badjson"}

\* run_aws_command: the parsed response, or None.
run_aws_command(outcome, response) ==
    IF outcome = "ok" THEN Some(response) ELSE None

\* What discover_<kind> appends for a response of run_aws_command.
Discovered(kind, response) ==
    IF response = None
    THEN <<>>
    ELSE IF kind = "ec2_instances"
         THEN LET running == SelectSeq(ValueOf(response),
                                       LAMBDA r : r.state = "running")
              IN  [i \in DOMAIN running |-> Resource(running[i].name)]
         ELSE [i \in DOMAIN ValueOf(response) |->
                  Resource(ValueOf(response)[i].name)]

RECURSIVE DiscoveredEcs(_, _, _)
\* What discover_ecs_services appends from cluster i on: the services of
\* each listed cluster whose list-services call (outcome outs[i]) answers.
DiscoveredEcs(clusters, outs, i) ==
    IF i > Len(clusters)
    THEN <<>>
    ELSE LET services == run_aws_command(outs[i], clusters[i].services)
         IN  (IF services = None
              THEN <<>>
              ELSE [j \in DOMAIN ValueOf(services) |->
                       Resource(ValueOf(services)[j])])
             \o DiscoveredEcs(clusters, outs, i + 1)

\* The component type convert_to_system_design gives a kind's resources.
TypeOfKind(kind) ==
    CASE kind \in {"ec2_instances", "ecs_services"} -> "service"
      [] kind = "rds_instances" -> "database"
      [] kind = "lambda_functions" -> "function"
      [] kind = "s3_buckets" -> "storage"
      [] kind = "load_balancers" -> "load_balancer"
      [] kind = "sqs_queues" -> "queue"
      [] kind = "elasticache_clusters" -> "cache"
      [] kind = "api_gateways" -> "api"

RECURSIVE ComponentsFrom(_, _)
\* The components of kinds i.. of Kinds, kind by kind, in discovery order.
ComponentsFrom(resources, i) ==
    IF i > Len(Kinds)
    THEN <<>>
    ELSE [j \in DOMAIN resources[Kinds[i]] |->
             SystemComponent(resources[Kinds[i]][j].name,
                             TypeOfKind(Kinds[i]))]
         \o ComponentsFrom(resources, i + 1)

convert_to_system_design(resources, reg) ==
    LET comps == ComponentsFrom(resources, 1)
    IN  [title |-> <<"AWS Infrastructure - ", reg>>,
         description |-> "Automatically discovered AWS architecture",
         components |-> comps,
         connections |-> infer_connections(comps),
         notes |-> << <<"Scanned AWS region: ", reg>>,
                      <<"Total resources discovered: ", ToString(Len(comps))>>,
                      <<"Connections are inferred based on common AWS architecture patterns">> >>]

VARIABLES
    components,             \* the argument of infer_connections
    connections,            \* its result
    inferPc,                \* "input" before the call, "inferred" after it
    payload,                \* a JSON value to be parsed as a SystemDesign
    parsed,                 \* None, or Some(the design parsed from payload)
    dumped,                 \* the JSON that design serializes to
    reparsed,               \* None, or Some(the design parsed from dumped)
    schemaPc,               \* how far the round trip has come
    mode,                   \* "interactive" or "batch" (main, by sys.argv)
    openai_key,             \* whether OPENAI_API_KEY is set
    anthropic_key,          \* whether ANTHROPIC_API_KEY is set
    pc,                     \* the workflow's position
    outcome,                \* "running", or how the workflow ended
    console,                \* what the workflow printed, in order
    verbose_mode,
    input_method,
    description,            \* None, or Some(the text typed or read)
    system_design,          \* None, or Some(design)
    style,
    ascii_diagram,          \* None, or Some(text)
    displayed,              \* None, or Some(the diagram printed)
    written,                \* the files written, in order
    output_file,            \* batch mode: whether an output path was given
    calls,                  \* the calls made on the providers' clients
    aws_installed,          \* whether the aws executable is on the PATH
    aws_authed,             \* whether the CLI holds valid credentials
    account,                \* what the AWS account holds
    scanPc,                 \* the position inside scan_aws_infrastructure
    scanIdx,                \* the next kind of Kinds to discover
    region_arg,             \* the region given to AwsScannerAgent(), or None
    region,                 \* self.region: None or Some(region)
    region_prompt,          \* None, or Some(the answer to the region prompt)
    discovered_resources,   \* self.discovered_resources
    awsCalls,               \* the CLI commands run, in order
    guided,                 \* how often guide_aws_authentication ran
    scanResult              \* None, or Some(what the scan returned)

inferVars == <<components, connections, inferPc>>
schemaVars == <<payload, parsed, dumped, reparsed, schemaPc>>
envVars == <<mode, openai_key, anthropic_key, account, region_arg>>
choiceVars == <<verbose_mode, input_method, style, output_file>>
dataVars == <<description, system_design, ascii_diagram>>
outVars == <<displayed, written>>
scanVars == <<scanPc, scanIdx, region, region_prompt, discovered_resources,
              awsCalls, guided, scanResult, aws_authed, aws_installed>>
wfVars == <<pc, outcome, console, choiceVars, dataVars, outVars, calls>>

vars == <<inferVars, schemaVars, envVars, wfVars, scanVars>>

\* No payload is being parsed.
SchemaIdle ==
    /\ payload = JNull
    /\ parsed = None
    /\ dumped = JNull
    /\ reparsed = None
    /\ schemaPc = "idle"

\* The scanner as AwsScannerAgent.__init__ leaves it, before any scan.
ScannerConstructed ==
    /\ scanPc = "idle"
    /\ scanIdx = 1
    /\ region = region_arg
    /\ region_prompt = None
    /\ discovered_resources = EmptyResources
    /\ awsCalls = <<>>
    /\ guided = 0
    /\ scanResult = None

\* The locals of interactive_mode and batch_mode before they are assigned.
WorkflowFresh ==
    /\ console = <<>>
    /\ verbose_mode = FALSE
    /\ input_method = "unset"
    /\ description = None
    /\ system_design = None
    /\ style = "detailed"
    /\ ascii_diagram = None
    /\ displayed = None
    /\ written = <<>>
    /\ output_file = FALSE
    /\ calls = <<>>

\* main() after load_environment(): either workflow, in any environment.
\* The AWS environment matters to the interactive workflow only.
Init ==
    /\ components = <<>>
    /\ connections = <<>>
    /\ inferPc = "idle"
    /\ SchemaIdle
    /\ mode \in {"interactive", "batch"}
    /\ openai_key \in BOOLEAN
    /\ anthropic_key \in BOOLEAN
    /\ aws_installed \in BOOLEAN
    /\ aws_authed \in BOOLEAN
    /\ account \in AccountSet
    /\ region_arg = None
    /\ mode = "batch" =>
          aws_installed = FALSE /\ aws_authed = FALSE
          /\ account = AccountEmpty
    /\ pc = "start"
    /\ outcome = "running"
    /\ WorkflowFresh
    /\ ScannerConstructed

\* A call of infer_connections on its own: no workflow runs.
InitInfer ==
    /\ components \in InputLists
    /\ connections = <<>>
    /\ inferPc = "input"
    /\ SchemaIdle
    /\ mode = "none"
    /\ openai_key = FALSE
    /\ anthropic_key = FALSE
    /\ aws_installed = FALSE
    /\ aws_authed = FALSE
    /\ account = AccountEmpty
    /\ region_arg = None
    /\ pc = "idle"
    /\ outcome = "idle"
    /\ WorkflowFresh
    /\ ScannerConstructed

InferConnections ==
    /\ inferPc = "input"
    /\ connections' = infer_connections(components)
    /\ inferPc' = "inferred"
    /\ UNCHANGED <<components, schemaVars, envVars, wfVars, scanVars>>

NextInfer == InferConnections

SpecInfer == InitInfer /\ [][NextInfer]_vars

(***************************************************************************)
(* The Schema Model on its own: a JSON payload is parsed, the design is    *)
(* serialized as refine_design does, and the text is parsed again.         *)
(***************************************************************************)
\* The values the lists of the enumerated payloads are made of.
SchemaComponents ==
    {SystemComponent(NameApp, "service"), SystemComponent(NameDb1, "database")}

SchemaConnections ==
    {Connection(NameApp, NameDb1, "sync", "reads orders"),
     Connection(NameDb1, NameApp, "async", "sends events")}

SchemaNotes == {<<"one region">>, <<"two zones">>}

\* The sequences over S of at most MaxItems elements.
ListsOf(S) == UNION {[1..n -> S] : n \in 0..MaxItems}

SchemaDesigns ==
    {[title |-> <<"Shop">>, description |-> "A web shop",
      components |-> cs, connections |-> ns, notes |-> ts] :
        cs \in ListsOf(SchemaComponents), ns \in ListsOf(SchemaConnections),
        ts \in ListsOf(SchemaNotes)}

\* model_dump_json(d) with a member the schema does not know.
WithVersion(d) ==
    JObj([f \in DesignFields \cup {"version"} |->
             IF f = "version" THEN JStr("2") ELSE model_dump_json(d).v[f]])

\* The payloads enumerated: each design as JSON, the same with an unknown
\* member, and the same without its notes (which the schema rejects).
Payloads ==
    {model_dump_json(d) : d \in SchemaDesigns}
    \cup {WithVersion(d) : d \in SchemaDesigns}
    \cup {Without(d, "notes") : d \in SchemaDesigns}

InitSchema ==
    /\ components = <<>>
    /\ connections = <<>>
    /\ inferPc = "idle"
    /\ payload \in Payloads
    /\ parsed = None
    /\ dumped = JNull
    /\ reparsed = None
    /\ schemaPc = "payload"
    /\ mode = "none"
    /\ openai_key = FALSE
    /\ anthropic_key = FALSE
    /\ aws_installed = FALSE
    /\ aws_authed = FALSE
    /\ account = AccountEmpty
    /\ region_arg = None
    /\ pc = "idle"
    /\ outcome = "idle"
    /\ WorkflowFresh
    /\ ScannerConstructed

\* SystemDesign(**payload) (design_recommender.py 112, 147).
ParsePayload ==
    /\ schemaPc = "payload"
    /\ IF ValidDesign(payload)
       THEN parsed' = Some(SystemDesign(payload)) /\ schemaPc' = "parsed"
       ELSE parsed' = None /\ schemaPc' = "rejected"
    /\ UNCHANGED <<payload, dumped, reparsed, inferVars, envVars, wfVars,
                   scanVars>>

\* current_design.model_dump_json() (128).
DumpDesign ==
    /\ schemaPc = "parsed"
    /\ dumped' = model_dump_json(ValueOf(parsed))
    /\ schemaPc' = "dumped"
    /\ UNCHANGED <<payload, parsed, reparsed, inferVars, envVars, wfVars,
                   scanVars>>

\* SystemDesign(**json.loads(dumped)).
ReparseDesign ==
    /\ schemaPc = "dumped"
    /\ IF ValidDesign(dumped)
       THEN reparsed' = Some(SystemDesign(dumped)) /\ schemaPc' = "reparsed"
       ELSE reparsed' = None /\ schemaPc' = "rejected_again"
    /\ UNCHANGED <<payload, parsed, dumped, inferVars, envVars, wfVars,
                   scanVars>>

NextSchema ==
    \/ ParsePayload
    \/ DumpDesign
    \/ ReparseDesign

SpecSchema == InitSchema /\ [][NextSchema]_vars

(***************************************************************************)
(* The providers' clients.  OpenAI(api_key=None) raises in its constructor *)
(* when OPENAI_API_KEY is unset; Anthropic(api_key=None) constructs, and   *)
(* its requests then fail for want of a credential.                        *)
(***************************************************************************)
OpenAIConstructorRaises == ~openai_key

\* How a request for a design can end: a design, or one of three failures,
\* each raised by recommend_design / refine_design as an exception.
DesignFailures == {"api_error", "malformed_json", "schema_violation"}

\* Whether an Anthropic request can succeed.
AnthropicCanAnswer == anthropic_key

\* The workflow ends with outcome o after printing msgs.
Ends(o, msgs) ==
    /\ outcome' = o
    /\ pc' = "end"
    /\ console' = console \o msgs

\* The workflow goes on at position p after printing msgs.
Goes(p, msgs) ==
    /\ outcome' = outcome
    /\ pc' = p
    /\ console' = console \o msgs

Running(m, p) == mode = m /\ pc = p /\ outcome = "running"

(***************************************************************************)
(* interactive_mode (main.py 119-276).                                     *)
(***************************************************************************)
\* 123-127: the only credential check of the workflow.
CheckApiKey ==
    /\ Running("interactive", "start")
    /\ IF ~openai_key
       THEN Ends("exit", <<"Error: OPENAI_API_KEY not found in environment">>)
       ELSE Goes("choose_input", <<>>)
    /\ UNCHANGED <<inferVars, schemaVars, envVars, choiceVars, dataVars, outVars, calls,
                   scanVars>>

\* 129-147: the verbose prompt and the input method, normalised.
ChooseInput ==
    /\ Running("interactive", "choose_input")
    /\ \E v \in BOOLEAN, m \in {"1", "2", "describe", "aws"} :
          /\ verbose_mode' = v
          /\ input_method' = IF m \in {"1", "describe"}
                             THEN "describe" ELSE "aws"
    /\ Goes("init_agents", <<>>)
    /\ UNCHANGED <<inferVars, schemaVars, envVars, style, output_file, dataVars, outVars,
                   calls, scanVars>>

\* 149-159, 180-186: AsciiArtistAgent(), then DesignRecommenderAgent() or
\* AwsScannerAgent() and the call of scan_aws_infrastructure.
InitAgents ==
    /\ Running("interactive", "init_agents")
    /\ IF input_method = "describe"
       THEN /\ IF OpenAIConstructorRaises
               THEN Ends("exception", <<>>)
               ELSE Goes("get_description", <<"Agents ready!">>)
            /\ UNCHANGED scanPc
       ELSE /\ Goes("scan", <<"Scanning AWS infrastructure...">>)
            /\ scanPc' = "check_cli"
    /\ UNCHANGED <<inferVars, schemaVars, envVars, choiceVars, dataVars, outVars, calls,
                   scanIdx, region, region_prompt, discovered_resources,
                   awsCalls, guided, scanResult, aws_authed, aws_installed>>

\* 161-168: the description, and the return on an empty one.
GetDescription ==
    /\ Running("interactive", "get_description")
    /\ \E d \in DescriptionInputs :
          /\ description' = Some(d)
          /\ IF Strip(d) = <<>>
             THEN Ends("returned", <<"No description provided. Exiting.">>)
             ELSE Goes("recommend", <<>>)
    /\ UNCHANGED <<inferVars, schemaVars, envVars, choiceVars, system_design,
                   ascii_diagram, outVars, calls, scanVars>>

\* 170-176 and batch_mode 294-295: design_agent.recommend_design(description)
\* (design_recommender.py 48-112), inside try/except in interactive_mode
\* only.
RecommendDesign ==
    /\ pc = "recommend" /\ outcome = "running"
    /\ \E n \in DOMAIN DesignResponses :
        LET answer == ParseResponse(DesignResponses[n])
        IN
          /\ calls' = Append(calls,
                [provider |-> "openai", op |-> "recommend_design",
                 design |-> None, style |-> "", instruction |-> "",
                 ok |-> answer.kind = "design",
                 response |-> Some(DesignResponses[n]),
                 result |-> answer.design])
          /\ IF answer.kind = "design"
             THEN /\ system_design' = answer.design
                  /\ Goes(IF mode = "batch" THEN "render_primary"
                          ELSE "display_design", <<>>)
             ELSE /\ UNCHANGED system_design
                  /\ IF mode = "batch"
                     THEN Ends("exception", <<>>)
                     ELSE Ends("returned", <<"Error generating design">>)
    /\ UNCHANGED <<inferVars, schemaVars, envVars, choiceVars, description,
                   ascii_diagram, outVars, scanVars>>

\* 188-190: the scan has returned.
ScanReturn ==
    /\ Running("interactive", "scan")
    /\ scanPc = "returned"
    /\ IF ValueOf(scanResult)
       THEN Goes("convert", <<>>)
       ELSE Ends("returned", <<"AWS scan failed. Exiting.">>)
    /\ UNCHANGED <<inferVars, schemaVars, envVars, choiceVars, dataVars, outVars, calls,
                   scanVars>>

\* 192-198: aws_scanner.convert_to_system_design().
ConvertResources ==
    /\ Running("interactive", "convert")
    /\ system_design' =
          Some(convert_to_system_design(discovered_resources,
                                        ValueOf(region)))
    /\ Goes("display_design", <<>>)
    /\ UNCHANGED <<inferVars, schemaVars, envVars, choiceVars, description,
                   ascii_diagram, outVars, calls, scanVars>>

\* 200-229: the design is printed; the refine prompt, in the describe flow
\* only.
DisplayDesign ==
    /\ Running("interactive", "display_design")
    /\ \E refine \in BOOLEAN :
          Goes(IF input_method = "describe" /\ refine
               THEN "refine" ELSE "choose_style",
               (IF verbose_mode /\ input_method = "describe"
                   /\ description # None /\ ValueOf(description) # <<>>
                THEN <<"AGENT-TO-AGENT COMMUNICATION">> ELSE <<>>)
               \o <<"System Design">>)
    /\ UNCHANGED <<inferVars, schemaVars, envVars, choiceVars, dataVars, outVars, calls,
                   scanVars>>

\* A refinement that keeps the notes of the design it refines.
RefineDesign_KeepsNotes ==
    /\ Running("interactive", "refine")
    /\ \E n \in DOMAIN DesignResponses :
        LET answer == ParseResponse(DesignResponses[n])
        IN
          /\ calls' = Append(calls,
                [provider |-> "openai", op |-> "refine_design",
                 design |-> system_design, style |-> "", instruction |-> "",
                 ok |-> answer.kind = "design",
                 response |-> Some(DesignResponses[n]),
                 result |-> answer.design])
          /\ IF answer.kind = "design"
             THEN /\ system_design' =
                        Some([ValueOf(answer.design) EXCEPT !.notes =
                                 ValueOf(system_design).notes \o @])
                  /\ Goes("choose_style", <<"Design updated!">>)
             ELSE /\ UNCHANGED system_design
                  /\ Ends("exception", <<>>)
    /\ UNCHANGED <<inferVars, schemaVars, envVars, choiceVars, description,
                   ascii_diagram, outVars, scanVars>>

\* 230-233: design_agent.refine_design(system_design, feedback)
\* (design_recommender.py 114-147), outside any try.
RefineDesign ==
    /\ Running("interactive", "refine")
    /\ \E n \in DOMAIN DesignResponses :
        LET answer == ParseResponse(DesignResponses[n])
        IN
          /\ calls' = Append(calls,
                [provider |-> "openai", op |-> "refine_design",
                 design |-> system_design, style |-> "", instruction |-> "",
                 ok |-> answer.kind = "design",
                 response |-> Some(DesignResponses[n]),
                 result |-> answer.design])
          /\ IF answer.kind = "design"
             THEN /\ system_design' = answer.design
                  /\ Goes("choose_style", <<"Design updated!">>)
             ELSE /\ UNCHANGED system_design
                  /\ Ends("exception", <<>>)
    /\ UNCHANGED <<inferVars, schemaVars, envVars, choiceVars, description,
                   ascii_diagram, outVars, scanVars>>

\* 235-245: the style prompt, restricted to its three choices.
ChooseStyle ==
    /\ Running("interactive", "choose_style")
    /\ style' \in Styles
    /\ Goes("render_primary", <<>>)
    /\ UNCHANGED <<inferVars, schemaVars, envVars, verbose_mode, input_method,
                   output_file, dataVars, outVars, calls, scanVars>>

\* 247-254 and batch_mode 297-298: ascii_agent.create_ascii_diagram
\* (ascii_artist.py 23-83); batch_mode passes no style and has no except.
RenderPrimary ==
    /\ pc = "render_primary" /\ outcome = "running"
    /\ LET st == IF mode = "batch" THEN "detailed" ELSE style
       IN  \E answer \in DiagramTexts \cup {"error"} :
              /\ answer \in DiagramTexts => AnthropicCanAnswer
              /\ calls' = Append(calls,
                    [provider |-> "anthropic", op |-> "create_ascii_diagram",
                     design |-> system_design, style |-> st,
                     instruction |-> PrimaryStyleInstruction(st),
                     ok |-> answer \in DiagramTexts,
                     response |-> None,
                     result |-> IF answer \in DiagramTexts
                                THEN Some(answer) ELSE None])
              /\ IF answer \in DiagramTexts
                 THEN /\ ascii_diagram' = Some(answer)
                      /\ Goes(IF mode = "batch" THEN "batch_output"
                              ELSE "display_diagram", <<>>)
                 ELSE /\ UNCHANGED ascii_diagram
                      /\ IF mode = "batch"
                         THEN Ends("exception", <<>>)
                         ELSE Goes("fallback_primary",
                                   <<"Anthropic API error",
                                     "Trying with OpenAI fallback...">>)
    /\ UNCHANGED <<inferVars, schemaVars, envVars, choiceVars, description,
                   system_design, outVars, scanVars>>

\* 255-259 with ascii_artist.py 139-143: create_with_openai_fallback first
\* calls create_ascii_diagram again.
FallbackPrimary ==
    /\ Running("interactive", "fallback_primary")
    /\ \E answer \in DiagramTexts \cup {"error"} :
          /\ answer \in DiagramTexts => AnthropicCanAnswer
          /\ calls' = Append(calls,
                [provider |-> "anthropic", op |-> "create_ascii_diagram",
                 design |-> system_design, style |-> style,
                 instruction |-> PrimaryStyleInstruction(style),
                 ok |-> answer \in DiagramTexts,
                 response |-> None,
                 result |-> IF answer \in DiagramTexts
                            THEN Some(answer) ELSE None])
          /\ IF answer \in DiagramTexts
             THEN /\ ascii_diagram' = Some(answer)
                  /\ Goes("display_diagram", <<>>)
             ELSE /\ UNCHANGED ascii_diagram
                  /\ Goes("fallback_openai",
                          <<"Anthropic API error", "Falling back to OpenAI...">>)
    /\ UNCHANGED <<inferVars, schemaVars, envVars, choiceVars, description,
                   system_design, outVars, scanVars>>

\* A fallback whose failure does not end the workflow.
FallbackOpenAI_IgnoresFailure ==
    /\ Running("interactive", "fallback_openai")
    /\ IF OpenAIConstructorRaises
       THEN /\ Ends("returned", <<"Error generating ASCII diagram">>)
            /\ UNCHANGED <<calls, ascii_diagram>>
       ELSE \E answer \in DiagramTexts \cup {"error"} :
              /\ calls' = Append(calls,
                    [provider |-> "openai", op |-> "chat.completions.create",
                     design |-> system_design, style |-> style,
                     instruction |-> FallbackStyleInstruction(style),
                     ok |-> answer \in DiagramTexts,
                     response |-> None,
                     result |-> IF answer \in DiagramTexts
                                THEN Some(answer) ELSE None])
              /\ IF answer \in DiagramTexts
                 THEN /\ ascii_diagram' = Some(answer)
                      /\ Goes("display_diagram", <<>>)
                 ELSE /\ UNCHANGED ascii_diagram
                      /\ Goes("display_diagram",
                              <<"Error generating ASCII diagram">>)
    /\ UNCHANGED <<inferVars, schemaVars, envVars, choiceVars, description,
                   system_design, outVars, scanVars>>

\* ascii_artist.py 145-175 with main.py 260-262: the OpenAI request of the
\* fallback, and the return when it raises.
FallbackOpenAI ==
    /\ Running("interactive", "fallback_openai")
    /\ IF OpenAIConstructorRaises
       THEN /\ Ends("returned", <<"Error generating ASCII diagram">>)
            /\ UNCHANGED <<calls, ascii_diagram>>
       ELSE \E answer \in DiagramTexts \cup {"error"} :
              /\ calls' = Append(calls,
                    [provider |-> "openai", op |-> "chat.completions.create",
                     design |-> system_design, style |-> style,
                     instruction |-> FallbackStyleInstruction(style),
                     ok |-> answer \in DiagramTexts,
                     response |-> None,
                     result |-> IF answer \in DiagramTexts
                                THEN Some(answer) ELSE None])
              /\ IF answer \in DiagramTexts
                 THEN /\ ascii_diagram' = Some(answer)
                      /\ Goes("display_diagram", <<>>)
                 ELSE /\ UNCHANGED ascii_diagram
                      /\ Ends("returned",
                              <<"Error generating ASCII diagram">>)
    /\ UNCHANGED <<inferVars, schemaVars, envVars, choiceVars, description,
                   system_design, outVars, scanVars>>

\* 264-267: the diagram is printed.
DisplayDiagram ==
    /\ Running("interactive", "display_diagram")
    /\ displayed' = ascii_diagram
    /\ Goes("save", <<>>)
    /\ UNCHANGED <<inferVars, schemaVars, envVars, choiceVars, dataVars, written, calls,
                   scanVars>>

\* A file name as atoms: its stem and, possibly, its ".txt".
FileNames == {<<>>, <<"out">>, <<"out", ".txt">>}

\* 272-273 with save_diagram 70-73: the name the diagram is saved under.
SavedName(filename) ==
    IF filename = <<>>
    THEN <<"diagram_", "timestamp", ".txt">>
    ELSE IF filename[Len(filename)] # ".txt"
         THEN filename \o <<".txt">>
         ELSE filename

\* 269-276 with save_diagram 65-77.
SaveDiagram ==
    /\ Running("interactive", "save")
    /\ \E save \in BOOLEAN, filename \in FileNames :
          IF save
          THEN /\ written' = Append(written,
                      [path |-> <<"outputs/">> \o SavedName(filename),
                       text |-> ValueOf(ascii_diagram)])
               /\ Ends("done", <<"Diagram saved", "Done!">>)
          ELSE /\ UNCHANGED written
               /\ Ends("done", <<"Done!">>)
    /\ UNCHANGED <<inferVars, schemaVars, envVars, choiceVars, dataVars, displayed,
                   calls, scanVars>>

(***************************************************************************)
(* batch_mode (main.py 279-304).                                           *)
(***************************************************************************)
\* 283-288 (and main 313-315): the input file is checked and read.
BatchReadFile ==
    /\ Running("batch", "start")
    /\ \E exists \in BOOLEAN, text \in DescriptionInputs, out \in BOOLEAN :
          /\ output_file' = out
          /\ IF ~exists
             THEN /\ Ends("exit", <<"Error: File not found">>)
                  /\ UNCHANGED description
             ELSE /\ description' = Some(text)
                  /\ Goes("init_agents", <<>>)
    /\ UNCHANGED <<inferVars, schemaVars, envVars, verbose_mode, input_method, style,
                   system_design, ascii_diagram, outVars, calls, scanVars>>

\* 290-292: DesignRecommenderAgent() and AsciiArtistAgent().
BatchInitAgents ==
    /\ Running("batch", "init_agents")
    /\ IF OpenAIConstructorRaises
       THEN Ends("exception", <<"Initializing agents...">>)
       ELSE Goes("recommend", <<"Initializing agents...">>)
    /\ UNCHANGED <<inferVars, schemaVars, envVars, choiceVars, dataVars, outVars, calls,
                   scanVars>>

\* 300-304: the diagram goes to the output file or to the console.
BatchOutput ==
    /\ Running("batch", "batch_output")
    /\ IF output_file
       THEN /\ written' = Append(written,
                   [path |-> <<"output_file">>,
                    text |-> ValueOf(ascii_diagram)])
            /\ UNCHANGED displayed
            /\ Ends("done", <<"Saved to output file">>)
       ELSE /\ displayed' = ascii_diagram
            /\ UNCHANGED written
            /\ Ends("done", <<>>)
    /\ UNCHANGED <<inferVars, schemaVars, envVars, choiceVars, dataVars, calls,
                   scanVars>>

(***************************************************************************)
(* scan_aws_infrastructure (aws_scanner.py 294-348) and what it calls.     *)
(***************************************************************************)
Scanning(p) == scanPc = p /\ outcome = "running"

\* One run of the CLI as its caller sees it: the command, the --region it
\* was given (None if none), and whether it answered ("ok"), failed in a way
\* the caller turns into False or None ("failed"), or raised
\* FileNotFoundError ("not_found").
CliCall(cmd, reg, o) ==
    [cmd |-> cmd, region |-> reg,
     outcome |-> IF o \in {"ok", "not_found"} THEN o ELSE "failed"]

\* The discovery commands of a log that did not answer.
FailedCalls(log) ==
    {i \in DOMAIN log : /\ log[i].cmd \in KindSet \cup {"ecs list-services"}
                        /\ log[i].outcome # "ok"}

\* The scan returns result after printing msgs.
ScanReturns(result, msgs) ==
    /\ scanResult' = Some(result)
    /\ scanPc' = "returned"
    /\ console' = console \o msgs

\* check_aws_cli_installed answering True whatever happened.
check_aws_cli_installed_Always(o) == TRUE

\* check_aws_cli_installed (38-49): FileNotFoundError and SubprocessError
\* are caught and mean "not installed".
check_aws_cli_installed(o) == o = "ok"

\* How `aws --version` can end.
VersionOutcomes ==
    IF aws_installed THEN {"ok", "nonzero", "timeout"} ELSE {"not_found"}

\* check_aws_authentication taking a timeout for a success.
check_aws_authentication_Lenient(o) == o \in {"ok", "timeout"}

\* check_aws_authentication (51-73): True only for exit code 0 and JSON
\* output.
check_aws_authentication(o) == o = "ok"

\* How `aws sts get-caller-identity` can end, given the credentials held.
IdentityOutcomes(authed) ==
    IF authed THEN {"ok", "timeout"} ELSE {"nonzero", "timeout"}

\* 301-307.
ScanCheckCli ==
    /\ Scanning("check_cli")
    /\ \E o \in VersionOutcomes :
          /\ awsCalls' = Append(awsCalls, CliCall("aws --version", None, o))
          /\ IF check_aws_cli_installed(o)
             THEN /\ scanPc' = "check_auth"
                  /\ console' = Append(console, "AWS CLI is installed")
                  /\ UNCHANGED scanResult
             ELSE ScanReturns(FALSE, <<"AWS CLI is not installed.">>)
    /\ UNCHANGED <<inferVars, schemaVars, envVars, pc, outcome, choiceVars, dataVars,
                   outVars, calls, scanIdx, region, region_prompt,
                   discovered_resources, aws_installed,
                   guided, aws_authed>>

\* 309-312, 319-320: the first identity check.
ScanCheckAuth ==
    /\ Scanning("check_auth")
    /\ \E o \in IdentityOutcomes(aws_authed) :
          /\ awsCalls' = Append(awsCalls,
                                CliCall("aws sts get-caller-identity", None, o))
          /\ IF check_aws_authentication(o)
             THEN /\ scanPc' = "region"
                  /\ console' = Append(console, "Authenticated")
             ELSE /\ scanPc' = "guide"
                  /\ UNCHANGED console
    /\ UNCHANGED <<inferVars, schemaVars, envVars, pc, outcome, choiceVars, dataVars,
                   outVars, calls, scanIdx, region, region_prompt,
                   discovered_resources, aws_installed,
                   guided, scanResult, aws_authed>>

\* 313-314 with guide_aws_authentication (75-117): the method prompt, the
\* wait for Enter, during which the user may have logged in, and the
\* identity check of the guide itself.
ScanGuide ==
    /\ Scanning("guide")
    /\ guided' = guided + 1
    /\ \E method \in {"configure", "sso", "skip"} :
          IF method = "skip"
          THEN /\ ScanReturns(FALSE,
                     <<"You need to authenticate with AWS first.">>)
               /\ UNCHANGED <<awsCalls, aws_authed>>
          ELSE \E loggedIn \in BOOLEAN :
                 /\ aws_authed' = (aws_authed \/ loggedIn)
                 /\ \E o \in IdentityOutcomes(aws_authed') :
                       /\ awsCalls' = Append(awsCalls,
                              CliCall("aws sts get-caller-identity", None, o))
                       /\ IF check_aws_authentication(o)
                          THEN /\ scanPc' = "recheck_auth"
                               /\ console' = console \o
                                     <<"You need to authenticate with AWS first.",
                                       "Successfully authenticated">>
                               /\ UNCHANGED scanResult
                          ELSE ScanReturns(FALSE,
                                  <<"You need to authenticate with AWS first.",
                                    "Authentication failed. Please try again manually.">>)
    /\ UNCHANGED <<inferVars, schemaVars, envVars, pc, outcome, choiceVars, dataVars,
                   outVars, calls, scanIdx, region, region_prompt,
                   discovered_resources, aws_installed>>

\* 315-318: the identity check after the guide.
ScanRecheckAuth ==
    /\ Scanning("recheck_auth")
    /\ \E o \in IdentityOutcomes(aws_authed) :
          /\ awsCalls' = Append(awsCalls,
                                CliCall("aws sts get-caller-identity", None, o))
          /\ IF check_aws_authentication(o)
             THEN /\ scanPc' = "region"
                  /\ UNCHANGED <<scanResult, console>>
             ELSE ScanReturns(FALSE, <<>>)
    /\ UNCHANGED <<inferVars, schemaVars, envVars, pc, outcome, choiceVars, dataVars,
                   outVars, calls, scanIdx, region, region_prompt,
                   discovered_resources, aws_installed,
                   guided, aws_authed>>

DefaultRegion == <<"us-east-1">>

\* What `aws configure get region` can print, with its exit code.
RegionLookups ==
    { [returncode |-> 0, stdout |-> <<"eu-west-1", "\n">>],
      [returncode |-> 0, stdout |-> <<"\n">>],
      [returncode |-> 1, stdout |-> <<>>] }

\* What the user answers to the region prompt (<<>> is a bare Enter).
RegionAnswers == {<<>>, <<"ap-south-1">>}

\* A region test that never takes self.region as set.
RegionGiven_Never(reg) == FALSE

\* Python's truth of self.region: neither None nor the empty string.
RegionGiven(reg) == reg # None /\ ValueOf(reg) # <<>>

\* The subprocess.run of `aws configure get region` (324-328), as logged.
RegionCall(r) ==
    [cmd |-> "aws configure get region", region |-> None,
     outcome |-> IF r.returncode = 0 THEN "ok" ELSE "failed",
     stdout |-> r.stdout]

\* 322-334: self.region if set, else the CLI's default, else the prompt,
\* whose default Prompt.ask returns on a bare Enter.
ScanResolveRegion ==
    /\ Scanning("region")
    /\ IF RegionGiven(region)
       THEN UNCHANGED <<region, awsCalls, region_prompt>>
       ELSE \E r \in RegionLookups :
              /\ awsCalls' = Append(awsCalls, RegionCall(r))
              /\ IF r.returncode = 0 /\ Strip(r.stdout) # <<>>
                 THEN /\ region' = Some(Strip(r.stdout))
                      /\ UNCHANGED region_prompt
                 ELSE \E answer \in RegionAnswers :
                        /\ region_prompt' = Some(answer)
                        /\ region' = Some(IF answer = <<>> THEN DefaultRegion
                                          ELSE answer)
    /\ scanPc' = "discover"
    /\ scanIdx' = 1
    /\ console' = Append(console, "Scanning AWS region")
    /\ UNCHANGED <<inferVars, schemaVars, envVars, pc, outcome, choiceVars, dataVars,
                   outVars, calls, discovered_resources, guided, scanResult,
                   aws_authed, aws_installed>>

\* The --region run_aws_command appends (129-132): self.region if it is set.
RegionOption == IF RegionGiven(region) THEN region ELSE None

\* The CLI commands discover_<kind> runs through run_aws_command: one per
\* kind (outcome o), and for ECS one list-services per listed cluster
\* (outcomes outs).
DiscoveryCalls(kind, response, o, outs) ==
    <<CliCall(kind, RegionOption, o)>>
    \o (IF kind = "ecs_services" /\ response # None
        THEN [i \in DOMAIN ValueOf(response) |->
                 CliCall("ecs list-services", RegionOption, outs[i])]
        ELSE <<>>)

\* 336-348: the next discover_<kind> (150-292); after the last kind the scan
\* returns True.  The executable may have gone from the PATH since
\* check_aws_cli_installed ran: subprocess.run then raises FileNotFoundError,
\* which run_aws_command (147) does not catch, and neither does
\* scan_aws_infrastructure nor its caller (main.py 188).
ScanDiscover ==
    /\ Scanning("discover")
    /\ \E present \in (IF aws_installed THEN BOOLEAN ELSE {FALSE}) :
         LET kind == Kinds[scanIdx]
         IN  /\ aws_installed' = present
             /\ IF ~present
                THEN /\ awsCalls' = Append(awsCalls,
                            CliCall(kind, RegionOption, "not_found"))
                     /\ Ends("exception", <<>>)
                     /\ UNCHANGED <<discovered_resources, scanIdx, scanPc,
                                    scanResult>>
                ELSE /\ \E o \in CommandOutcomes,
                           outs \in [DOMAIN account["ecs_services"] ->
                                        CommandOutcomes] :
                          LET response == run_aws_command(o, account[kind])
                          IN  /\ awsCalls' = awsCalls \o
                                    DiscoveryCalls(kind, response, o, outs)
                              /\ Cardinality(FailedCalls(awsCalls'))
                                    <= MaxFailedCalls
                              /\ discovered_resources' =
                                    [discovered_resources EXCEPT ![kind] =
                                       @ \o (IF kind # "ecs_services"
                                             THEN Discovered(kind, response)
                                             ELSE IF response = None
                                             THEN <<>>
                                             ELSE DiscoveredEcs(
                                                     ValueOf(response),
                                                     outs, 1))]
                     /\ UNCHANGED <<pc, outcome>>
                     /\ IF scanIdx = Len(Kinds)
                        THEN /\ ScanReturns(TRUE,
                                    <<"AWS infrastructure scan complete">>)
                             /\ UNCHANGED scanIdx
                        ELSE /\ scanIdx' = scanIdx + 1
                             /\ UNCHANGED <<scanPc, scanResult, console>>
    /\ UNCHANGED <<inferVars, schemaVars, mode, openai_key, anthropic_key, account,
                   region_arg, choiceVars, dataVars, outVars, calls, region,
                   region_prompt, guided, aws_authed>>

Next ==
    \/ CheckApiKey
    \/ ChooseInput
    \/ InitAgents
    \/ GetDescription
    \/ RecommendDesign
    \/ ScanCheckCli
    \/ ScanCheckAuth
    \/ ScanGuide
    \/ ScanRecheckAuth
    \/ ScanResolveRegion
    \/ ScanDiscover
    \/ ScanReturn
    \/ ConvertResources
    \/ DisplayDesign
    \/ RefineDesign
    \/ ChooseStyle
    \/ RenderPrimary
    \/ FallbackPrimary
    \/ FallbackOpenAI
    \/ DisplayDiagram
    \/ SaveDiagram
    \/ BatchReadFile
    \/ BatchInitAgents
    \/ BatchOutput

Spec == Init /\ [][Next]_vars

(***************************************************************************)
(* AwsScannerAgent used on its own: AwsScannerAgent(region) and one call   *)
(* of scan_aws_infrastructure, with no workflow around it.                 *)
(***************************************************************************)
\* The region argument of the constructor: none, the empty string, a region.
RegionArgs == {None, Some(<<>>), Some(<<"us-west-2">>)}

InitScan ==
    /\ components = <<>>
    /\ connections = <<>>
    /\ inferPc = "idle"
    /\ SchemaIdle
    /\ mode = "library"
    /\ openai_key = FALSE
    /\ anthropic_key = FALSE
    /\ aws_installed \in BOOLEAN
    /\ aws_authed \in BOOLEAN
    /\ account \in AccountSet
    /\ region_arg \in RegionArgs
    /\ pc = "scan"
    /\ outcome = "running"
    /\ WorkflowFresh
    /\ scanPc = "check_cli"
    /\ scanIdx = 1
    /\ region = region_arg
    /\ region_prompt = None
    /\ discovered_resources = EmptyResources
    /\ awsCalls = <<>>
    /\ guided = 0
    /\ scanResult = None

NextScan ==
    \/ ScanCheckCli
    \/ ScanCheckAuth
    \/ ScanGuide
    \/ ScanRecheckAuth
    \/ ScanResolveRegion
    \/ ScanDiscover

SpecScan == InitScan /\ [][NextScan]_vars

(***************************************************************************)
(* One AwsScannerAgent scanned more than once: the caller calls            *)
(* scan_aws_infrastructure again on the agent a scan has returned from.    *)
(* The agent keeps self.region and self.discovered_resources; awsCalls and *)
(* guided go on counting over all the scans.                               *)
(***************************************************************************)
\* The scans started so far: each begins with `aws --version`.
ScansStarted ==
    Cardinality({i \in DOMAIN awsCalls : awsCalls[i].cmd = "aws --version"})

\* Another call of scan_aws_infrastructure (294): nothing is reset.
ScanAgain ==
    /\ scanPc = "returned"
    /\ outcome = "running"
    /\ ScansStarted < MaxScans
    /\ scanPc' = "check_cli"
    /\ scanResult' = None
    /\ UNCHANGED <<inferVars, schemaVars, envVars, wfVars, scanIdx, region,
                   region_prompt, discovered_resources, awsCalls, guided,
                   aws_authed, aws_installed>>

NextRescan ==
    \/ NextScan
    \/ ScanAgain

SpecRescan == InitScan /\ [][NextRescan]_vars

(***************************************************************************)
(* Properties of the workflows, checked under Spec.                        *)
(***************************************************************************)
Ended == outcome \in {"exit", "returned", "exception", "done"}

IsPrimaryRendering(c) ==
    c.provider = "anthropic" /\ c.op = "create_ascii_diagram"

IsSecondaryRendering(c) ==
    c.provider = "openai" /\ c.op = "chat.completions.create"

\* The environment and the input are in order: both credentials are set and
\* the description, once given, is not blank.
WellFormedRun ==
    /\ openai_key /\ anthropic_key
    /\ description # None => Strip(ValueOf(description)) # <<>>

\* C1: in a workflow that has ended, interactive or batch, every failed call
\* of the primary provider's create_ascii_diagram was followed by a call of
\* the secondary (OpenAI) rendering provider.  (Stated for runs with both
\* credentials set and a non-blank description, where nothing but the
\* rendering fails.)
C1_FallbackAttemptedAfterPrimaryFailure ==
    (Ended /\ WellFormedRun) =>
        \A i \in DOMAIN calls :
            (IsPrimaryRendering(calls[i]) /\ ~calls[i].ok)
            => \E j \in DOMAIN calls :
                  j > i /\ IsSecondaryRendering(calls[j])

\* C2: once the description, typed or read from the batch input file, is
\* empty or blank, no call has been made on any remote provider.  (Stated
\* for runs with both credentials set.)
C2_EmptyDescriptionNoRemoteCall ==
    (/\ openai_key /\ anthropic_key
     /\ description # None
     /\ Strip(ValueOf(description)) = <<>>)
        => calls = <<>>

\* C3: no run ends in an unhandled fault because an external call (design
\* generation, refinement, rendering) failed: the failure is caught and the
\* workflow ends with a message.  (Stated for runs with both credentials set
\* and a non-blank description.)
C3_NoUnhandledFault ==
    WellFormedRun =>
        ~(/\ outcome = "exception"
          /\ calls # <<>>
          /\ ~calls[Len(calls)].ok)

\* C4: with OPENAI_API_KEY or ANTHROPIC_API_KEY missing, the workflow makes
\* no call on a remote provider.  (Stated for runs whose description is not
\* blank.)
C4_MissingCredentialNoRemoteCall ==
    (/\ ~openai_key \/ ~anthropic_key
     /\ description # None => Strip(ValueOf(description)) # <<>>)
        => calls = <<>>

IsDesignCall(c) == c.op \in {"recommend_design", "refine_design"}

IsRendering(c) == IsPrimaryRendering(c) \/ IsSecondaryRendering(c)

\* Whether design d has every field of the schema, at every level.
WellShaped(d) ==
    /\ DOMAIN d = DesignFields
    /\ \A i \in DOMAIN d.components :
          DOMAIN d.components[i] = ComponentFields
    /\ \A i \in DOMAIN d.connections :
          DOMAIN d.connections[i] = ConnectionFields

\* Whether design d holds exactly what the JSON object j holds: j has every
\* member of the schema, and d's fields, components, connections and notes
\* are j's, one for one and in j's order.
HoldsExactly(d, j) ==
    /\ j.t = "object" /\ DesignFields \subseteq DOMAIN j.v
    /\ \A f \in {"components", "connections", "notes"} :
          j.v[f].t = "array" /\ Len(d[f]) = Len(j.v[f].v)
    /\ d.title = j.v.title.v
    /\ d.description = j.v.description.v
    /\ \A i \in DOMAIN d.components :
          /\ ComponentFields \subseteq DOMAIN j.v.components.v[i].v
          /\ \A f \in ComponentFields :
                d.components[i][f] = j.v.components.v[i].v[f].v
    /\ \A i \in DOMAIN d.connections :
          /\ ConnectionFields \subseteq DOMAIN j.v.connections.v[i].v
          /\ \A f \in ConnectionFields :
                d.connections[i][f] = j.v.connections.v[i].v[f].v
    /\ \A i \in DOMAIN d.notes : d.notes[i] = j.v.notes.v[i].v

\* C15: a call of recommend_design or refine_design either returned a design
\* that has every field of SystemDesign, SystemComponent and Connection and
\* holds exactly what the JSON answer holds (nothing defaulted, nothing
\* dropped), and that design is what the workflow then holds; or it raised:
\* the call is the last one, the workflow has ended on it, and the workflow
\* holds no new design (none after recommend_design, the design that was to
\* be refined after refine_design).
C15_DesignOrError ==
    \A i \in DOMAIN calls :
        IsDesignCall(calls[i]) =>
            LET r == ValueOf(calls[i].response)
                res == calls[i].result
            IN  /\ calls[i].ok <=> res # None
                /\ res # None
                      => /\ r.status = "ok" /\ r.json
                         /\ WellShaped(ValueOf(res))
                         /\ HoldsExactly(ValueOf(res), r.value)
                         /\ i = Len(calls) => system_design = res
                /\ res = None
                      => /\ i = Len(calls)
                         /\ outcome \in {"returned", "exception"}
                         /\ system_design =
                               IF calls[i].op = "recommend_design"
                               THEN None ELSE calls[i].design

\* refine_design was answered with an object that has no notes: it raised,
\* and the workflow still holds the design recommend_design returned.
C15_Witness ==
    /\ Len(calls) = 2
    /\ calls[1].op = "recommend_design" /\ calls[1].ok
    /\ calls[2].op = "refine_design" /\ ~calls[2].ok
    /\ ValueOf(calls[2].response).json
    /\ "notes" \notin DOMAIN ValueOf(calls[2].response).value.v
    /\ "title" \in DOMAIN ValueOf(calls[2].response).value.v
    /\ system_design = Some(DesignShop)
    /\ outcome = "exception"

\* C16: in the interactive workflow, once the secondary rendering provider
\* has failed (after the primary), the workflow has ended with its error
\* message: no diagram is held or displayed, the workflow is not at the
\* display or the save prompt, and no file was written.
C16_BothProvidersFailNoDiagram ==
    (/\ mode = "interactive"
     /\ \E j \in DOMAIN calls :
           IsSecondaryRendering(calls[j]) /\ ~calls[j].ok)
        => /\ \E i \in DOMAIN calls :
                 IsPrimaryRendering(calls[i]) /\ ~calls[i].ok
           /\ pc = "end"
           /\ outcome = "returned"
           /\ ascii_diagram = None
           /\ displayed = None
           /\ written = <<>>
           /\ console[Len(console)] = "Error generating ASCII diagram"

\* Both providers failed in an interactive run of the describe flow.
C16_Witness ==
    /\ mode = "interactive"
    /\ input_method = "describe"
    /\ Len(calls) = 4
    /\ IsPrimaryRendering(calls[2]) /\ ~calls[2].ok
    /\ IsPrimaryRendering(calls[3]) /\ ~calls[3].ok
    /\ IsSecondaryRendering(calls[4]) /\ ~calls[4].ok
    /\ pc = "end"

\* The style an instruction text of either provider stands for.
StyleOfInstruction(text) ==
    CASE text \in {"Create a compact diagram that fits in ~80 characters width. Be space-efficient.",
                   "Create a compact diagram that fits in ~80 characters width."}
            -> "compact"
      [] text \in {"Create a flowchart-style diagram showing the flow of data/requests through the system.",
                   "Create a flowchart-style diagram showing data/request flow."}
            -> "flowchart"
      [] text \in {"Create a detailed, spacious diagram with boxes and clear connections. Use box-drawing characters.",
                   "Create a detailed, spacious diagram with boxes and clear connections."}
            -> "detailed"
      [] OTHER -> "none"

\* C17: a successful call of the secondary provider follows a failed call of
\* the primary with the same design and the same style, and its instruction
\* stands for that style; its text is the diagram the workflow holds,
\* displays and saves.  A style outside the three known ones gets the
\* detailed instruction from both providers.
C17_FallbackSameRequestTextUnmodified ==
    /\ \A j \in DOMAIN calls :
          (IsSecondaryRendering(calls[j]) /\ calls[j].ok)
          => /\ \E i \in 1..(j - 1) :
                   /\ IsPrimaryRendering(calls[i]) /\ ~calls[i].ok
                   /\ calls[i].design = calls[j].design
                   /\ calls[i].style = calls[j].style
                   /\ StyleOfInstruction(calls[i].instruction)
                         = calls[j].style
             /\ calls[j].design = system_design
             /\ StyleOfInstruction(calls[j].instruction) = calls[j].style
             /\ ascii_diagram = calls[j].result
             /\ pc \in {"save", "end"} => displayed = calls[j].result
             /\ \A w \in DOMAIN written :
                   written[w].text = ValueOf(calls[j].result)
    /\ \A s \in {"banner", ""} :
          /\ StyleOfInstruction(PrimaryStyleInstruction(s)) = "detailed"
          /\ StyleOfInstruction(FallbackStyleInstruction(s)) = "detailed"

\* The primary failed twice, the secondary answered a compact request, and
\* its text was displayed and saved.
C17_Witness ==
    /\ outcome = "done"
    /\ style = "compact"
    /\ Len(calls) = 4
    /\ ~calls[2].ok /\ ~calls[3].ok
    /\ IsSecondaryRendering(calls[4]) /\ calls[4].ok
    /\ calls[4].result = Some("+--+ art two")
    /\ displayed = Some("+--+ art two")
    /\ Len(written) = 1 /\ written[1].text = "+--+ art two"

\* C19: every rendering call is given the design of the last successful
\* design call before it; when that call is a refine_design, the design is
\* exactly what its JSON answer holds, whatever the refined design held; a
\* call of refine_design is made, and the refine step reached, in the
\* describe flow only.
C19_RefineReplacesDesign ==
    /\ \A i \in DOMAIN calls :
          (IsRendering(calls[i]) /\ \E k \in 1..(i - 1) : IsDesignCall(calls[k]))
          => LET k == CHOOSE k \in 1..(i - 1) :
                        /\ IsDesignCall(calls[k])
                        /\ \A h \in (k + 1)..(i - 1) : ~IsDesignCall(calls[h])
             IN  /\ calls[k].ok
                 /\ calls[i].design = calls[k].result
                 /\ HoldsExactly(ValueOf(calls[i].design),
                                 ValueOf(calls[k].response).value)
    /\ \A k \in DOMAIN calls :
          calls[k].op = "refine_design"
          => /\ input_method = "describe"
             /\ k = 2 /\ calls[1].op = "recommend_design" /\ calls[1].ok
             /\ calls[k].design = calls[1].result
    /\ pc = "refine" => input_method = "describe"

\* A design with a note was refined into one without notes, and the
\* rendering was given the refined design.
C19_Witness ==
    /\ Len(calls) >= 3
    /\ calls[1].result = Some(DesignShop)
    /\ calls[2].op = "refine_design"
    /\ calls[2].result = Some(DesignShopCached)
    /\ IsPrimaryRendering(calls[3])
    /\ calls[3].design = Some(DesignShopCached)

(***************************************************************************)
(* Properties of the Schema Model, checked under SpecSchema.               *)
(***************************************************************************)
\* C18: a payload that holds every member of the schema in its shape is
\* parsed, and never rejected; once the design is serialized and parsed
\* again, the second design equals the first, and both hold exactly the
\* payload's components, connections and notes in the payload's order.
C18_RoundTripStable ==
    /\ schemaPc \in {"rejected"} => "notes" \notin DOMAIN payload.v
    /\ schemaPc # "rejected_again"
    /\ schemaPc = "reparsed"
          => /\ parsed # None
             /\ reparsed = parsed
             /\ HoldsExactly(ValueOf(parsed), payload)
             /\ HoldsExactly(ValueOf(reparsed), payload)
             /\ HoldsExactly(ValueOf(reparsed), dumped)

\* A payload with an unknown member, two different notes and two different
\* components went round: the text serialized differs from the payload.
C18_Witness ==
    /\ schemaPc = "reparsed"
    /\ "version" \in DOMAIN payload.v
    /\ dumped # payload
    /\ ValueOf(reparsed).notes = << <<"two zones">>, <<"one region">> >>
    /\ Len(ValueOf(reparsed).components) = 2
    /\ ValueOf(reparsed).components[1] # ValueOf(reparsed).components[2]

(***************************************************************************)
(* Properties of scan_aws_infrastructure, read off the log of CLI runs.    *)
(* C11 and C12 are checked under Spec, C13 and C14 under SpecScan.         *)
(***************************************************************************)
\* The positions of the resource-enumeration runs in the log.
EnumerationCalls ==
    {i \in DOMAIN awsCalls :
        awsCalls[i].cmd \in KindSet \cup {"ecs list-services"}}

IdentityChecks ==
    SelectSeq(awsCalls, LAMBDA c : c.cmd = "aws sts get-caller-identity")

RegionLookupCalls ==
    SelectSeq(awsCalls, LAMBDA c : c.cmd = "aws configure get region")

\* The scan went past authentication.
Proceeded ==
    \/ scanPc \in {"region", "discover"}
    \/ scanResult = Some(TRUE)
    \/ EnumerationCalls # {}

\* C11: a discovery call of the enumeration phase that fails (the tool is
\* not installed, a non-zero exit, empty output, a timeout, unparsable JSON)
\* leaves its kind's list empty, lets no exception out of the scan, and the
\* scan goes on: once it has returned, it returned True and every kind was
\* enumerated.
C11_DiscoveryFailureNotFatal ==
    \A i \in DOMAIN awsCalls :
        (awsCalls[i].cmd \in KindSet /\ awsCalls[i].outcome # "ok")
        => /\ discovered_resources[awsCalls[i].cmd] = <<>>
           /\ ~(outcome = "exception" /\ scanPc = "discover")
           /\ scanPc = "returned"
                 => /\ scanResult = Some(TRUE)
                    /\ \A k \in KindSet :
                          \E j \in DOMAIN awsCalls : awsCalls[j].cmd = k

\* C12: a scan that found the CLI absent (`aws --version` did not succeed),
\* or whose identity check after the guided flow failed, returned False; a
\* scan that returned False ran no enumeration command, looked up and asked
\* for no region, left self.region and discovered_resources as constructed,
\* and the interactive workflow then ended with its message, with no design
\* converted and no provider called.
C12_FatalScanTouchesNothing ==
    /\ \A i \in DOMAIN awsCalls :
          (awsCalls[i].cmd = "aws --version" /\ awsCalls[i].outcome # "ok")
          => scanResult = Some(FALSE) /\ Len(awsCalls) = 1
    /\ (guided = 1 /\ scanPc = "returned"
        /\ IdentityChecks[Len(IdentityChecks)].outcome # "ok")
          => scanResult = Some(FALSE)
    /\ scanResult = Some(FALSE)
          => /\ EnumerationCalls = {}
             /\ RegionLookupCalls = <<>>
             /\ region_prompt = None
             /\ region = region_arg
             /\ discovered_resources = EmptyResources
             /\ pc \in {"scan", "end"}
             /\ system_design = None
             /\ ascii_diagram = None
             /\ calls = <<>>
             /\ pc = "end" => outcome = "returned" /\ written = <<>>

\* The guided flow succeeded, the identity check after it failed, and the
\* workflow ended on the failed scan.
C12_Witness ==
    /\ scanResult = Some(FALSE)
    /\ guided = 1
    /\ Len(IdentityChecks) = 3
    /\ pc = "end"
    /\ outcome = "returned"

\* C13: guide_aws_authentication runs at most once in a scan, and only after
\* a failed first identity check (which always leads to it); there are at
\* most three identity checks (the first, the guide's own, the one after the
\* guide); after a guided flow the scan goes on to the region and the
\* enumeration exactly when that third check succeeded, and otherwise it
\* returns False.
C13_SingleGuidedRetry ==
    LET ids == IdentityChecks
    IN  /\ guided <= 1
        /\ Len(ids) <= 3
        /\ guided = 1 => Len(ids) >= 1 /\ ids[1].outcome # "ok"
        /\ (guided = 0 /\ Len(ids) >= 1 /\ ids[1].outcome # "ok")
              => scanPc = "guide"
        /\ guided = 0 => (Proceeded <=> Len(ids) = 1 /\ ids[1].outcome = "ok")
        /\ guided = 1 => (Proceeded <=> Len(ids) = 3 /\ ids[3].outcome = "ok")
        /\ (guided = 1 /\ scanPc = "returned" /\ ~Proceeded)
              => scanResult = Some(FALSE)

\* A scan whose first identity check failed, whose guided flow and third
\* check succeeded, and which enumerated and returned True.
C13_Witness ==
    /\ guided = 1
    /\ Len(IdentityChecks) = 3
    /\ IdentityChecks[3].outcome = "ok"
    /\ scanResult = Some(TRUE)

\* C14: once the region is resolved, it is the constructor's argument if one
\* was given (a non-empty string), and then the CLI's default was not
\* looked up and the user was not asked; otherwise the stripped output of
\* the one `aws configure get region` run if it exited with 0 and printed
\* something other than blanks, and then the user was not asked; otherwise
\* the answer to the prompt, or us-east-1 on a bare Enter.  Every
\* enumeration command carries that region.
C14_RegionResolutionOrder ==
    LET lookups == RegionLookupCalls
        resolved == scanPc = "discover" \/ scanResult = Some(TRUE)
                    \/ EnumerationCalls # {}
    IN  /\ \A i \in EnumerationCalls :
              awsCalls[i].region = region /\ region \notin {None, Some(<<>>)}
        /\ resolved =>
              IF region_arg \notin {None, Some(<<>>)}
              THEN /\ region = region_arg
                   /\ lookups = <<>>
                   /\ region_prompt = None
              ELSE /\ Len(lookups) = 1
                   /\ IF lookups[1].outcome = "ok"
                         /\ Strip(lookups[1].stdout) # <<>>
                      THEN /\ region = Some(Strip(lookups[1].stdout))
                           /\ region_prompt = None
                      ELSE /\ region_prompt # None
                           /\ region =
                                 IF ValueOf(region_prompt) = <<>>
                                 THEN Some(<<"us-east-1">>)
                                 ELSE region_prompt

\* A scanner constructed with a region enumerated every kind in it, with no
\* lookup and no prompt.
C14_Witness ==
    /\ region_arg = Some(<<"us-west-2">>)
    /\ scanResult = Some(TRUE)
    /\ RegionLookupCalls = <<>>
    /\ region_prompt = None
    /\ \A k \in KindSet :
          \E i \in EnumerationCalls :
             awsCalls[i].cmd = k /\ awsCalls[i].region = Some(<<"us-west-2">>)

(***************************************************************************)
(* Repeated scans of one agent, checked under SpecRescan.                  *)
(***************************************************************************)
\* Where the latest scan begins in the log.
LatestScanStart ==
    CHOOSE i \in DOMAIN awsCalls :
        /\ awsCalls[i].cmd = "aws --version"
        /\ \A j \in DOMAIN awsCalls :
              awsCalls[j].cmd = "aws --version" => j <= i

\* The runs of command cmd in the latest scan, in order.
LatestRuns(cmd) ==
    SelectSeq(SubSeq(awsCalls, LatestScanStart, Len(awsCalls)),
              LAMBDA c : c.cmd = cmd)

\* What the latest scan got for a kind: what the account holds of it if the
\* kind's command answered (for ECS, the services of each cluster whose
\* list-services answered), and nothing otherwise.
LatestResources(kind) ==
    IF LatestRuns(kind) = <<>> \/ LatestRuns(kind)[1].outcome # "ok"
    THEN <<>>
    ELSE IF kind = "ecs_services"
    THEN DiscoveredEcs(account[kind],
                       [i \in DOMAIN account[kind] |->
                           LatestRuns("ecs list-services")[i].outcome], 1)
    ELSE Discovered(kind, Some(account[kind]))

\* C22: when a scan has returned True, after however many scans of the
\* agent, discovered_resources holds for each kind exactly what that latest
\* scan got, and convert_to_system_design gives one component per resource
\* of the latest scan.  (Stated for scans none of whose discovery commands
\* failed.)
C22_LatestScanOnly ==
    (scanPc = "returned" /\ scanResult = Some(TRUE)
     /\ FailedCalls(awsCalls) = {})
    => /\ \A k \in KindSet : discovered_resources[k] = LatestResources(k)
       /\ Len(convert_to_system_design(discovered_resources,
                                       ValueOf(region)).components)
          = Len(ComponentsFrom([k \in AllKeys |->
                                  IF k \in KindSet THEN LatestResources(k)
                                  ELSE <<>>], 1))

(***************************************************************************)
(* Properties of infer_connections, stated over positions of the component *)
(* list and checked under SpecInfer.                                       *)
(***************************************************************************)
Inferred == inferPc = "inferred"

Positions == DOMAIN components

ServiceLike == {"service", "compute", "function"}

\* The source filter and the target filter of rules 1..5 as the spec words
\* them, with the rule's connection type and description.
SourceOfRule(r, c) ==
    CASE r = 1 -> c.type = "load_balancer"
      [] r \in {2, 3, 4} -> c.type \in ServiceLike
      [] r = 5 -> c.type = "api"

TargetOfRule(r, c) ==
    CASE r = 1 -> c.type \in {"service", "compute"}
      [] r = 2 -> c.type = "database"
      [] r = 3 -> c.type = "cache"
      [] r = 4 -> c.type = "queue"
      [] r = 5 -> c.type = "function" \/ Contains(c.name, LambdaStr)

TypeOfRule(r) ==
    CASE r \in {1, 5} -> "http"
      [] r \in {2, 3, 6} -> "sync"
      [] r = 4 -> "async"

DescOfRule(r) ==
    CASE r = 1 -> DescRule1 [] r = 2 -> DescRule2 [] r = 3 -> DescRule3
      [] r = 4 -> DescRule4 [] r = 5 -> DescRule5 [] r = 6 -> DescRule6

\* The first position whose component satisfies P, as a set (empty if none).
FirstPosition(P(_)) ==
    {i \in Positions : P(components[i])
                       /\ \A h \in Positions : h < i => ~P(components[h])}

IsServiceLike(c) == c.type \in ServiceLike
IsService(c) == c.type = "service"
IsStorage(c) == c.type = "storage"

\* The position pairs rule r connects: a cross-product for rules 1..5, the
\* first service/compute/function and the first storage for rule 6.
PairsOfRule(r) ==
    IF r = 6
    THEN FirstPosition(IsServiceLike) \X FirstPosition(IsStorage)
    ELSE {p \in Positions \X Positions :
            SourceOfRule(r, components[p[1]])
            /\ TargetOfRule(r, components[p[2]])}

EdgesOfRule(r) ==
    {k \in DOMAIN connections : connections[k].description = DescOfRule(r)}

RuleOfEdge(k) == CHOOSE r \in 1..6 : connections[k].description = DescOfRule(r)

DistinctNames ==
    \A i, j \in Positions : components[i].name = components[j].name => i = j

\* Whether edge k names a component of the list that satisfies P.
TargetIs(k, P(_)) ==
    \E j \in Positions : components[j].name = connections[k].to_component
                         /\ P(components[j])

\* C5 as claimed: the rule-6 edge runs from the first component whose type
\* is exactly "service" to the first storage component, so a function or
\* compute component ahead of the first service is never its source.
C5_SourceIsFirstExactService ==
    Inferred =>
        \A k \in EdgesOfRule(6) :
            /\ \E i \in FirstPosition(IsService) :
                  connections[k].from_component = components[i].name
            /\ \E j \in FirstPosition(IsStorage) :
                  connections[k].to_component = components[j].name

\* C5 amended: the rule-6 edge runs from the first component in list order
\* whose type is service, compute or function to the first storage-typed
\* component in list order.
C5_SourceIsFirstServiceLike ==
    Inferred =>
        \A k \in EdgesOfRule(6) :
            /\ \E i \in FirstPosition(IsServiceLike) :
                  connections[k].from_component = components[i].name
            /\ \E j \in FirstPosition(IsStorage) :
                  connections[k].to_component = components[j].name
            /\ connections[k].connection_type = "sync"

\* A function ahead of the first service is the source of the rule-6 edge.
C5_Witness ==
    /\ Inferred
    /\ components = ExampleFunctionFirst
    /\ \E k \in EdgesOfRule(6) :
          /\ connections[k].from_component = NameSvc1
          /\ connections[k].to_component = NameS3a

\* C6 as claimed: at most one edge targets a storage-typed component, exactly
\* one (sync) when a service-typed and a storage-typed component exist, and
\* two services with two storages give exactly one edge.
C6_AtMostOneEdgeToStorage ==
    Inferred =>
        LET toStorage == {k \in DOMAIN connections : TargetIs(k, IsStorage)}
        IN  /\ Cardinality(toStorage) <= 1
            /\ (\E i, j \in Positions : IsService(components[i])
                                        /\ IsStorage(components[j]))
                  => /\ Cardinality(toStorage) = 1
                     /\ \A k \in toStorage :
                           connections[k].connection_type = "sync"
            /\ components = ExampleTwoSvcTwoStorage => Len(connections) = 1

\* C6 amended: at most one rule-6 edge is emitted (and, when names are
\* pairwise distinct, at most one sync edge targets a storage-typed
\* component); there is exactly one, of type sync, when the list holds a
\* service-typed and a storage-typed component; two services with two
\* storages give exactly one edge in all.
C6_Rule6Cap ==
    Inferred =>
        /\ Cardinality(EdgesOfRule(6)) <= 1
        /\ DistinctNames =>
              Cardinality({k \in DOMAIN connections :
                              connections[k].connection_type = "sync"
                              /\ TargetIs(k, IsStorage)}) <= 1
        /\ (\E i, j \in Positions : IsService(components[i])
                                    /\ IsStorage(components[j]))
              => /\ Cardinality(EdgesOfRule(6)) = 1
                 /\ \A k \in EdgesOfRule(6) :
                       /\ connections[k].connection_type = "sync"
                       /\ TargetIs(k, IsStorage)
        /\ components = ExampleTwoSvcTwoStorage
              => connections = <<Connection(NameSvc1, NameS3a, "sync",
                                            DescRule6)>>

\* Two services and two storages went in and one edge came out.
C6_Witness ==
    /\ Inferred
    /\ components = ExampleTwoSvcTwoStorage
    /\ Len(connections) = 1

\* C7: for each of rules 1..4 the output holds exactly one edge of the rule
\* (its type and description) per position pair of the rule's cross-product:
\* as many edges in all as pairs, and between the names of any pair as many
\* edges as there are pairs bearing those two names.
C7_CrossProduct ==
    Inferred =>
        \A r \in 1..4 :
            /\ Cardinality(EdgesOfRule(r)) = Cardinality(PairsOfRule(r))
            /\ \A p \in PairsOfRule(r) :
                  Cardinality({k \in DOMAIN connections :
                      connections[k] = Connection(components[p[1]].name,
                                                  components[p[2]].name,
                                                  TypeOfRule(r),
                                                  DescOfRule(r))})
                  = Cardinality({q \in PairsOfRule(r) :
                      /\ components[q[1]].name = components[p[1]].name
                      /\ components[q[2]].name = components[p[2]].name})

\* Two sources and two targets of rule 2 gave four edges, after two edges of
\* rule 1.
C7_Witness ==
    /\ Inferred
    /\ components = ExampleTwoByTwo
    /\ Cardinality(EdgesOfRule(2)) = 4
    /\ Cardinality(EdgesOfRule(1)) = 2

\* C8: every api component is connected (http) to every component that is
\* function-typed or has "Lambda" (case-sensitive) in its name, whatever its
\* type; no rule-5 edge targets a name borne only by components that are
\* neither.
C8_ApiToLambda ==
    Inferred =>
        /\ \A i, j \in Positions :
              (components[i].type = "api"
               /\ (components[j].type = "function"
                   \/ Contains(components[j].name, LambdaStr)))
              => \E k \in DOMAIN connections :
                    connections[k] = Connection(components[i].name,
                                                components[j].name,
                                                "http", DescRule5)
        /\ \A k \in EdgesOfRule(5) :
              /\ connections[k].connection_type = "http"
              /\ \E i \in Positions :
                    /\ components[i].type = "api"
                    /\ components[i].name = connections[k].from_component
              /\ \E j \in Positions :
                    /\ components[j].name = connections[k].to_component
                    /\ (components[j].type = "function"
                        \/ Contains(components[j].name, LambdaStr))

\* An api is connected to a cache named "myLambda"; a cache named "lambda"
\* beside it gets no rule-5 edge.
C8_Witness ==
    /\ Inferred
    /\ components = <<SystemComponent(NameApp, "api"),
                      SystemComponent(NameMyLambda, "cache"),
                      SystemComponent(NameLower, "cache")>>
    /\ connections = <<Connection(NameApp, NameMyLambda, "http", DescRule5)>>

\* Whether edge k is an edge of rule r of the spec between components that
\* bear its names; rule 6 with the source filter `src6`.
MatchesRule(k, r, src6(_)) ==
    /\ connections[k].connection_type = TypeOfRule(r)
    /\ \E i, j \in Positions :
          /\ components[i].name = connections[k].from_component
          /\ components[j].name = connections[k].to_component
          /\ IF r = 6
             THEN src6(components[i]) /\ IsStorage(components[j])
             ELSE SourceOfRule(r, components[i])
                  /\ TargetOfRule(r, components[j])

\* C9 as claimed: every emitted edge matches one of the six rules as the spec
\* words them (rule 6 from a service-typed component), and [lb1, svc1, db1]
\* gives exactly lb1->svc1 (http) and svc1->db1 (sync).
C9_OnlySpecRuleEdges ==
    Inferred =>
        /\ \A k \in DOMAIN connections :
              \E r \in 1..6 : MatchesRule(k, r, IsService)
        /\ components = ExampleLbSvcDb
              => connections =
                    <<Connection(NameLb1, NameSvc1, "http", DescRule1),
                      Connection(NameSvc1, NameDb1, "sync", DescRule2)>>

\* C9 amended: every emitted edge matches one of the six rules, rule 6 read
\* with a service-, compute- or function-typed source, and [lb1, svc1, db1]
\* gives exactly lb1->svc1 (http) and svc1->db1 (sync).
C9_OnlyRuleEdges ==
    Inferred =>
        /\ \A k \in DOMAIN connections :
              \E r \in 1..6 : MatchesRule(k, r, IsServiceLike)
        /\ components = ExampleLbSvcDb
              => connections =
                    <<Connection(NameLb1, NameSvc1, "http", DescRule1),
                      Connection(NameSvc1, NameDb1, "sync", DescRule2)>>

\* The spec's example went in and its two edges came out.
C9_Witness ==
    /\ Inferred
    /\ components = ExampleLbSvcDb
    /\ Len(connections) = 2

\* p before q in the order of the nested loops: by source position, then by
\* target position.
LoopOrder(p, q) == p[1] < q[1] \/ (p[1] = q[1] /\ p[2] < q[2])

\* C10: the edges come in blocks by rule number, and the n-th edge of a
\* rule's block joins the names at the n-th position pair of the rule, the
\* pairs counted by source position and then by target position.
C10_OrderedByRuleThenList ==
    Inferred =>
        /\ \A k1, k2 \in DOMAIN connections :
              k1 < k2 => RuleOfEdge(k1) <= RuleOfEdge(k2)
        /\ \A k \in DOMAIN connections :
              LET r == RuleOfEdge(k)
                  n == Cardinality({m \in EdgesOfRule(r) : m <= k})
              IN  \E p \in PairsOfRule(r) :
                     /\ Cardinality({q \in PairsOfRule(r) : LoopOrder(q, p)})
                            = n - 1
                     /\ connections[k].from_component = components[p[1]].name
                     /\ connections[k].to_component = components[p[2]].name

\* Two rules fired, the second with two sources and two targets: the output
\* lists rule 1, then rule 2 source by source.
C10_Witness ==
    /\ Inferred
    /\ components = ExampleTwoByTwo
    /\ connections =
          <<Connection(NameLb1, NameSvc1, "http", DescRule1),
            Connection(NameLb1, NameSvc2, "http", DescRule1),
            Connection(NameSvc1, NameDb1, "sync", DescRule2),
            Connection(NameSvc1, NameS3a, "sync", DescRule2),
            Connection(NameSvc2, NameDb1, "sync", DescRule2),
            Connection(NameSvc2, NameS3a, "sync", DescRule2)>>

\* C20: for a component list whose names are pairwise distinct, no returned
\* connection runs from a component to itself.
C20_NoSelfLoop ==
    (Inferred /\ DistinctNames) =>
        \A k \in DOMAIN connections :
            connections[k].from_component # connections[k].to_component

\* C21: for a component list whose names are pairwise distinct, no two
\* returned connections have the same from_component and the same
\* to_component, whichever rules they come from.
C21_NoDuplicatePair ==
    (Inferred /\ DistinctNames) =>
        \A k1, k2 \in DOMAIN connections :
            (/\ connections[k1].from_component = connections[k2].from_component
             /\ connections[k1].to_component = connections[k2].to_component)
            => k1 = k2

\* Five components of distinct names gave six edges of two rules, two of
\* them from one source and two of them to one target.
C21_Witness ==
    /\ Inferred
    /\ DistinctNames
    /\ components = ExampleTwoByTwo
    /\ Len(connections) = 6
    /\ Cardinality({<<connections[k].from_component,
                       connections[k].to_component>> :
                        k \in DOMAIN connections}) = 6

\* C23: in an interactive run the primary provider's create_ascii_diagram is
\* called at most once, and once such a call has failed no later call of the
\* run goes to the primary provider: the fallback calls the secondary
\* provider only.  (Stated for runs with both credentials set and a
\* non-blank description.)
C23_PrimaryInvokedAtMostOnce ==
    (mode = "interactive" /\ WellFormedRun) =>
        /\ Cardinality({i \in DOMAIN calls : IsPrimaryRendering(calls[i])}) <= 1
        /\ \A i, j \in DOMAIN calls :
              (/\ i < j
               /\ IsPrimaryRendering(calls[i])
               /\ ~calls[i].ok)
              => ~IsPrimaryRendering(calls[j])

====
